---- MODULE Spec2Model ----
(***************************************************************************)
(* A model of the PD client of src/src/pd/client.rs: construction          *)
(* (RpcClient::new, validate_endpoints, connect), the failover selector    *)
(* (try_connect), the request executor (do_request), the response header   *)
(* check (check_resp_header) and the operations of the PdClient facade.    *)
(*                                                                         *)
(* A string is a sequence of one-character strings, so that split, trim    *)
(* and parse::<u16> are computed as the code computes them.                *)
(***************************************************************************)
EXTENDS Integers, Sequences, FiniteSets, TLC

VARIABLES
    \* ---- the network the client talks to
    env,            \* node -> [conn, rpc, cluster_id]: how each PD node behaves
    \* ---- RpcClient::new / validate_endpoints
    input,          \* the endpoints string given to RpcClient::new
    npc,            \* position of the construction: "new", "loop", "ok", "err", "panic"
    endpoints,      \* the Vec of trimmed, non-empty entries
    idx,            \* index of the next endpoint of the for loop
    endpoints_set,  \* the HashSet of the endpoints seen so far
    pd_client,      \* Option: the first connection that answered
    members_opt,    \* Option: the first GetMembers response
    cluster_id,     \* Option: the cluster id of the first response
    nerr,           \* the error construction returned
    netlog,         \* the network calls construction has made, in order
    \* ---- RpcClient
    members,        \* RpcClient.members: the GetMembersResponse kept at construction
    inner,          \* RpcClient.inner: the connection guarded by the RwLock
    readers,        \* callers holding the RwLock for reading
    writer,         \* caller holding the RwLock for writing
    poisoned,       \* the RwLock is poisoned: a writer panicked
    \* ---- each caller of a facade operation
    pc,             \* caller -> position in the facade operation / do_request
    req,            \* caller -> the request it built (header stamped by header())
    attempt,        \* caller -> iterations of the retry loop started
    r,              \* caller -> the result of the last f(cli): None before the first
    result,         \* caller -> what the facade operation returned
    \* ---- history of the call in progress (not program state)
    invokes,        \* caller -> times f was invoked in this call
    sleeps,         \* caller -> one-second pauses taken in this call
    failovers,      \* caller -> times try_connect was called in this call
    glitches,       \* caller -> transient transport failures met in this call
    first_conn,     \* caller -> connection the first invocation of this call was made on
    failed_on,      \* caller -> connection its invocation failed on, until its failover
    fresh,          \* caller -> it installed a connection it has not invoked on yet
    \* ---- history of one run of try_connect on its own (not program state)
    shuffle,        \* the outcome of the shuffle of the member indexes
    tried,          \* the addresses connect was called with, in order
    selected        \* Option: what try_connect returned

newVars == <<input, npc, endpoints, idx, endpoints_set, pd_client, members_opt,
             cluster_id, nerr, netlog>>
clientVars == <<members, inner, readers, writer, poisoned>>
callVars == <<pc, req, attempt, r, result>>
histVars == <<invokes, sleeps, failovers, glitches, first_conn, failed_on, fresh>>
tryVars == <<shuffle, tried, selected>>
vars == <<env, newVars, clientVars, callVars, histVars, tryVars>>

None == [none |-> TRUE]
Some(x) == [some |-> x]
IsSome(o) == "some" \in DOMAIN o

(***************************************************************************)
(* Strings                                                                 *)
(***************************************************************************)

\* str::split(sep): the pieces between the separators; n separators give n+1 pieces.
RECURSIVE split(_, _)
split(s, sep) ==
    IF s = <<>> THEN << <<>> >>
    ELSE LET rest == split(Tail(s), sep) IN
         IF Head(s) = sep THEN << <<>> >> \o rest
         ELSE << <<Head(s)>> \o Head(rest) >> \o Tail(rest)

RECURSIVE trim_start(_)
trim_start(s) == IF s # <<>> /\ Head(s) = " " THEN trim_start(Tail(s)) ELSE s

RECURSIVE trim_end(_)
trim_end(s) ==
    IF s # <<>> /\ s[Len(s)] = " " THEN trim_end(SubSeq(s, 1, Len(s) - 1)) ELSE s

\* str::trim(): leading and trailing whitespace removed.
trim(s) == trim_end(trim_start(s))

U16_MAX == 65535

DigitValue(ch) ==
    CASE ch = "0" -> 0 [] ch = "1" -> 1 [] ch = "2" -> 2 [] ch = "3" -> 3
      [] ch = "4" -> 4 [] ch = "5" -> 5 [] ch = "6" -> 6 [] ch = "7" -> 7
      [] ch = "8" -> 8 [] ch = "9" -> 9 [] OTHER -> -1

\* parse::<u16>() of the digits after acc: -1 is Err (an invalid digit, an overflow).
RECURSIVE parse_digits(_, _)
parse_digits(s, acc) ==
    IF s = <<>> THEN acc
    ELSE IF DigitValue(Head(s)) < 0 THEN -1
    ELSE IF acc * 10 + DigitValue(Head(s)) > U16_MAX THEN -1
    ELSE parse_digits(Tail(s), acc * 10 + DigitValue(Head(s)))

\* str::parse::<u16>(): -1 is Err (also for the empty string).
parse_u16(s) == IF s = <<>> THEN -1 ELSE parse_digits(s, 0)

\* parse_endpoints with the trim left out
parse_endpoints_notrim(s) ==
    SelectSeq(split(s, ","), LAMBDA e : e # <<>>)

\* endpoints.split(',').map(|s| s.trim()).filter(|s| !s.is_empty()).collect()
parse_endpoints(s) ==
    LET pieces == split(s, ",")
        trimmed == [i \in 1..Len(pieces) |-> trim(pieces[i])]
    IN SelectSeq(trimmed, LAMBDA e : e # <<>>)

(***************************************************************************)
(* The network: nodes, what they answer, and the inputs of construction    *)
(***************************************************************************)

Node(h, p) == [host |-> h, port |-> p]
NodeA == Node(<<"a">>, 1)
NodeB == Node(<<"b">>, 1)
NodeC == Node(<<"c">>, 1)
Nodes == {NodeA, NodeB, NodeC}

AddrA == <<"a", ":", "1">>
AddrB == <<"b", ":", "1">>
AddrC == <<"c", ":", "1">>
\* addresses connect cannot parse
AddrNoPort == <<"a">>
AddrUrl == <<"h", ":", "/", "/", "a", ":", "1">>
AddrBigPort == <<"a", ":", "6", "5", "5", "3", "6">>

ClusterIds == {7, 9}

Down == [conn |-> "down", rpc |-> "fail", cluster_id |-> 0]
Mute == [conn |-> "up", rpc |-> "fail", cluster_id |-> 0]
Serving(c) == [conn |-> "up", rpc |-> "ok", cluster_id |-> c]
NodeStates == {Down, Mute} \cup {Serving(c) : c \in ClusterIds}

NodeState(n) == IF n \in DOMAIN env THEN env[n] ELSE Down

Member(urls) == [peer_urls |-> urls]
\* the member list each node reports in its GetMembersResponse
MembersOf(n) ==
    CASE n = NodeA -> <<Member(<<AddrA>>), Member(<<AddrB>>)>>
      [] n = NodeB -> <<Member(<<AddrB, AddrA>>)>>
      [] OTHER -> <<Member(<<AddrUrl>>), Member(<<AddrA>>)>>

GetMembersResponse(c, ms) == [header |-> [cluster_id |-> c], members |-> ms]

\* The pieces an endpoints string is made of, joined by commas.
Pieces == << <<>>, <<" ">>, AddrA, <<" ">> \o AddrA \o <<" ">>, AddrB, AddrC, AddrNoPort >>
MaxEntries == 3

RECURSIVE Join(_)
Join(ps) ==
    IF ps = <<>> THEN <<>>
    ELSE IF Len(ps) = 1 THEN ps[1]
    ELSE ps[1] \o <<",">> \o Join(Tail(ps))

Inputs ==
    UNION {{Join([i \in 1..n |-> Pieces[f[i]]]) : f \in [1..n -> 1..Len(Pieces)]} :
              n \in 0..MaxEntries}

(***************************************************************************)
(* connect, validate_endpoints, RpcClient::new                             *)
(***************************************************************************)

Panic == [tag |-> "panic"]
Err(e) == [tag |-> "err", err |-> e]
Ok(v) == [tag |-> "ok", val |-> v]

\* connect(addr): the second part of addr.split(':') parsed as the port, both
\* unwrapped (a panic when there is no second part or it is no u16), then PDClient::new.
connect(addr) ==
    LET parts == split(addr, ":") IN
    IF Len(parts) < 2 THEN Panic
    ELSE IF parse_u16(parts[2]) < 0 THEN Panic
    ELSE LET n == Node(parts[1], parse_u16(parts[2])) IN
         IF NodeState(n).conn = "up" THEN Ok(n) ELSE Err("connect")

\* client.GetMembers(..) on the connection to node n
GetMembers(n) ==
    IF NodeState(n).rpc = "ok"
    THEN Ok(GetMembersResponse(NodeState(n).cluster_id, MembersOf(n)))
    ELSE Err("grpc")

\* the check of line 99 left out
cluster_id_mismatch_never(sample, cid) == FALSE

\* the check of line 99
cluster_id_mismatch(sample, cid) == sample # cid

\* the later value kept instead of the first
retain_last(kept, new) == Some(new)

\* if pd_client.is_none() { pd_client = Some(client) }, and the same for members
retain(kept, new) == IF IsSome(kept) THEN kept ELSE Some(new)

\* RpcClient::new up to the for loop of validate_endpoints
New ==
    /\ npc = "new"
    /\ endpoints' = parse_endpoints(input)
    /\ IF endpoints' = <<>>
       THEN npc' = "err" /\ nerr' = "empty PD endpoints"
       ELSE npc' = "loop" /\ nerr' = nerr
    /\ idx' = 1
    /\ endpoints_set' = {}
    /\ pd_client' = None
    /\ members_opt' = None
    /\ cluster_id' = None
    /\ UNCHANGED <<env, input, netlog, clientVars, callVars, histVars, tryVars>>

\* one iteration of the for loop of validate_endpoints
ValidateStep ==
    /\ npc = "loop"
    /\ idx <= Len(endpoints)
    /\ LET ep == endpoints[idx]
           c == connect(ep)
           g == GetMembers(c.val)
           cid == g.val.header.cluster_id
       IN
       IF ep \in endpoints_set
       THEN /\ npc' = "err"
            /\ nerr' = "duplicate PD endpoint"
            /\ UNCHANGED <<idx, endpoints_set, pd_client, members_opt, cluster_id, netlog>>
       ELSE
         /\ endpoints_set' = endpoints_set \cup {ep}
         /\ IF c.tag = "panic"
            THEN /\ npc' = "panic"
                 /\ netlog' = Append(netlog, <<"connect", ep>>)
                 /\ UNCHANGED <<idx, pd_client, members_opt, cluster_id, nerr>>
            ELSE IF c.tag = "err"
            THEN /\ idx' = idx + 1
                 /\ netlog' = Append(netlog, <<"connect", ep>>)
                 /\ UNCHANGED <<npc, pd_client, members_opt, cluster_id, nerr>>
            ELSE
              /\ netlog' = netlog \o << <<"connect", ep>>, <<"GetMembers", ep>> >>
              /\ IF g.tag = "err"
                 THEN /\ idx' = idx + 1
                      /\ UNCHANGED <<npc, pd_client, members_opt, cluster_id, nerr>>
                 ELSE IF IsSome(cluster_id) /\ cluster_id_mismatch(cluster_id.some, cid)
                 THEN /\ npc' = "err"
                      /\ nerr' = "PD response cluster_id mismatch"
                      /\ UNCHANGED <<idx, pd_client, members_opt, cluster_id>>
                 ELSE /\ cluster_id' = IF IsSome(cluster_id) THEN cluster_id ELSE Some(cid)
                      /\ pd_client' = retain(pd_client, c.val)
                      /\ members_opt' = retain(members_opt, g.val)
                      /\ idx' = idx + 1
                      /\ UNCHANGED <<npc, nerr>>
    /\ UNCHANGED <<env, input, endpoints, clientVars, callVars, histVars, tryVars>>

\* the match after the loop, and RpcClient { members, inner: RwLock::new(client) }
ValidateEnd ==
    /\ npc = "loop"
    /\ idx > Len(endpoints)
    /\ IF IsSome(pd_client) /\ IsSome(members_opt)
       THEN /\ npc' = "ok"
            /\ members' = members_opt.some
            /\ inner' = pd_client.some
            /\ nerr' = nerr
       ELSE /\ npc' = "err"
            /\ nerr' = "PD cluster failed to respond"
            /\ UNCHANGED <<members, inner>>
    /\ UNCHANGED <<env, input, endpoints, idx, endpoints_set, pd_client, members_opt,
                   cluster_id, netlog, readers, writer, poisoned, callVars, histVars,
                   tryVars>>

\* get_cluster_id of the client
get_cluster_id == members.header.cluster_id

\* the threads that may call the client, and the one that does when calls are
\* made one at a time
Threads == {1, 2}
Callers == {1}
NoClient == [none |-> TRUE]
NoMembers == GetMembersResponse(0, <<>>)

IdleCalls ==
    /\ pc = [c \in Threads |-> "idle"]
    /\ req = [c \in Threads |-> None]
    /\ attempt = [c \in Threads |-> 0]
    /\ r = [c \in Threads |-> None]
    /\ result = [c \in Threads |-> None]
    /\ invokes = [c \in Threads |-> 0]
    /\ sleeps = [c \in Threads |-> 0]
    /\ failovers = [c \in Threads |-> 0]
    /\ glitches = [c \in Threads |-> 0]
    /\ first_conn = [c \in Threads |-> None]
    /\ failed_on = [c \in Threads |-> None]
    /\ fresh = [c \in Threads |-> FALSE]

NoTry ==
    /\ shuffle = <<>>
    /\ tried = <<>>
    /\ selected = None

\* Construction: RpcClient::new on any input string, against any network.
InitNew ==
    /\ env \in [Nodes -> NodeStates]
    /\ input \in Inputs
    /\ npc = "new"
    /\ endpoints = <<>>
    /\ idx = 1
    /\ endpoints_set = {}
    /\ pd_client = None
    /\ members_opt = None
    /\ cluster_id = None
    /\ nerr = "none"
    /\ netlog = <<>>
    /\ members = NoMembers
    /\ inner = NoClient
    /\ readers = {}
    /\ writer = None
    /\ poisoned = FALSE
    /\ IdleCalls
    /\ NoTry

NextNew == New \/ ValidateStep \/ ValidateEnd

SpecNew == InitNew /\ [][NextNew]_vars

(***************************************************************************)
(* try_connect, do_request, check_resp_header and the PdClient operations  *)
(***************************************************************************)

MAX_RETRY_COUNT == 100

\* transient transport failures a serving node may show within one call
MaxGlitches == 1

Ops == {"bootstrap_cluster", "is_cluster_bootstrapped", "alloc_id", "put_store",
        "get_store", "get_cluster_config", "get_region", "get_region_by_id",
        "region_heartbeat", "ask_split", "store_heartbeat", "report_split"}

\* header() leaving the cluster id of the new RequestHeader unset
header_unset == [cluster_id |-> 0]

\* RpcClient::header(): the cluster id of the members kept at construction
header == [cluster_id |-> members.header.cluster_id]

\* the request a facade operation builds before it calls do_request
Request(o) == [op |-> o, header |-> header]

\* a singular message field of a response: take_x() of an unset field is the default
take(field) == IF IsSome(field) THEN field.some ELSE "default"

\* the fields of the response of each remote call, besides its header
Bodies(o) ==
    CASE o = "is_cluster_bootstrapped" -> {[bootstrapped |-> b] : b \in BOOLEAN}
      [] o = "alloc_id" -> {[id |-> i] : i \in {1, 2}}
      [] o = "get_store" -> {[store |-> Some("store")]}
      [] o = "get_cluster_config" -> {[cluster |-> Some("cluster")]}
      [] o \in {"get_region", "get_region_by_id"} -> {[region |-> None], [region |-> Some("region")]}
      [] o \in {"region_heartbeat", "ask_split"} -> {[directive |-> "d1"], [directive |-> "d2"]}
      [] OTHER -> {[empty |-> TRUE]}

ErrorMessages == {"e1", "e2"}

\* the responses a node of cluster c may give to the remote call of operation o
Responses(o, c) ==
    {[header |-> [cluster_id |-> c, error |-> e], body |-> b] :
        e \in {None} \cup {Some(m) : m \in ErrorMessages}, b \in Bodies(o)}

\* check_resp_header comparing the response's cluster id with the recorded one
check_resp_header_cluster_id(h) ==
    IF h.cluster_id # members.header.cluster_id THEN Err("cluster_id mismatch")
    ELSE IF ~IsSome(h.error) THEN Ok("unit") ELSE Err(h.error.some)

\* check_resp_header letting an embedded error pass
check_resp_header_silent(h) == Ok("unit")

\* check_resp_header
check_resp_header(h) ==
    IF ~IsSome(h.error) THEN Ok("unit") ELSE Err(h.error.some)

\* what each facade operation returns from a response whose header passed the check
Payload(o, rsp) ==
    CASE o = "is_cluster_bootstrapped" -> rsp.body.bootstrapped
      [] o = "alloc_id" -> rsp.body.id
      [] o = "get_store" -> take(rsp.body.store)
      [] o = "get_cluster_config" -> take(rsp.body.cluster)
      [] o = "get_region" -> take(rsp.body.region)
      [] o = "get_region_by_id" ->
            IF IsSome(rsp.body.region) THEN Some(take(rsp.body.region)) ELSE None
      [] o \in {"region_heartbeat", "ask_split"} -> rsp
      [] OTHER -> "unit"

\* the part of a facade operation after do_request: try!(do_request), try!(check), Ok(..)
Facade(o, res) ==
    IF res.tag = "err" THEN res
    ELSE IF check_resp_header(res.val.header).tag = "err"
         THEN check_resp_header(res.val.header)
         ELSE Ok(Payload(o, res.val))

Perms(n) == {f \in [1..n -> 1..n] : \A i, j \in 1..n : f[i] = f[j] => i = j}

\* the addresses try_connect visits: members in the shuffled order, each member's
\* peer_urls in the listed order
Visit(ms, order) ==
    LET RECURSIVE Flat(_)
        Flat(i) == IF i > Len(ms) THEN <<>>
                   ELSE ms[order[i]].peer_urls \o Flat(i + 1)
    IN Flat(1)

\* the loop of try_connect over the addresses: the first Ok is returned, an Err is
\* skipped, a panic of connect unwinds
RECURSIVE first_connect(_)
first_connect(addrs) ==
    IF addrs = <<>> THEN Err("failed to connect")
    ELSE IF connect(Head(addrs)).tag = "err" THEN first_connect(Tail(addrs))
    ELSE connect(Head(addrs))

\* try_connect giving up after the first member of the shuffled order
try_connect_first_member_only(ms, order) ==
    IF ms.members = <<>> THEN Err("failed to connect")
    ELSE first_connect(ms.members[order[1]].peer_urls)

\* try_connect(members) under one outcome of the shuffle
try_connect(ms, order) == first_connect(Visit(ms.members, order))

\* f(cli): the remote call on the current connection; a serving node answers, or
\* fails transiently; any other node fails
Outcomes(c) ==
    IF NodeState(inner).rpc = "ok"
    THEN {Ok(rsp) : rsp \in Responses(req[c].some.op, NodeState(inner).cluster_id)}
         \cup (IF glitches[c] < MaxGlitches THEN {Err("grpc")} ELSE {})
    ELSE {Err("grpc")}

\* the loop one iteration short
retry_budget_left_off_by_one(n) == n < MAX_RETRY_COUNT - 1

\* for _ in 0..MAX_RETRY_COUNT: n iterations begun, another one follows
retry_budget_left(n) == n < MAX_RETRY_COUNT

\* the match taking a response with an embedded error for a failure to retry
match_arm_retry_header_error(out) ==
    IF out.tag = "ok" /\ ~IsSome(out.val.header.error) THEN "returned" ELSE "failed"

\* match r: Ok(r) breaks out of the loop with resp = Some(r), Err(e) fails over
match_arm(out) == IF out.tag = "ok" THEN "returned" ELSE "failed"

\* the facade operation o up to its call of do_request
BeginOp(c, o) ==
    /\ pc[c] \in {"idle", "done"}
    /\ req' = [req EXCEPT ![c] = Some(Request(o))]
    /\ pc' = [pc EXCEPT ![c] = "loop"]
    /\ attempt' = [attempt EXCEPT ![c] = 0]
    /\ r' = [r EXCEPT ![c] = None]
    /\ result' = [result EXCEPT ![c] = None]
    /\ invokes' = [invokes EXCEPT ![c] = 0]
    /\ sleeps' = [sleeps EXCEPT ![c] = 0]
    /\ failovers' = [failovers EXCEPT ![c] = 0]
    /\ glitches' = [glitches EXCEPT ![c] = 0]
    /\ first_conn' = [first_conn EXCEPT ![c] = None]
    /\ failed_on' = [failed_on EXCEPT ![c] = None]
    /\ fresh' = [fresh EXCEPT ![c] = FALSE]
    /\ UNCHANGED <<env, newVars, clientVars, tryVars>>

\* any facade operation up to its call of do_request
BeginCall(c) == \E o \in Ops : BeginOp(c, o)

\* get_cluster_id: answered from the members kept at construction
GetClusterId(c) ==
    /\ pc[c] \in {"idle", "done"}
    /\ req' = [req EXCEPT ![c] = None]
    /\ r' = [r EXCEPT ![c] = None]
    /\ result' = [result EXCEPT ![c] = Some(Ok(get_cluster_id))]
    /\ pc' = [pc EXCEPT ![c] = "done"]
    /\ attempt' = [attempt EXCEPT ![c] = 0]
    /\ invokes' = [invokes EXCEPT ![c] = 0]
    /\ sleeps' = [sleeps EXCEPT ![c] = 0]
    /\ failovers' = [failovers EXCEPT ![c] = 0]
    /\ glitches' = [glitches EXCEPT ![c] = 0]
    /\ first_conn' = [first_conn EXCEPT ![c] = None]
    /\ failed_on' = [failed_on EXCEPT ![c] = None]
    /\ fresh' = [fresh EXCEPT ![c] = FALSE]
    /\ UNCHANGED <<env, newVars, clientVars, tryVars>>

\* RwLock::read() returning at once whoever holds the lock
read_ready_ignoring_writer == TRUE

\* RwLock::read() returns: no writer holds the lock
read_ready == writer = None

\* RwLock::write() returning while readers hold the lock
write_ready_ignoring_readers == writer = None

\* RwLock::write() returns: neither a writer nor a reader holds the lock
write_ready == writer = None /\ readers = {}

\* the head of an iteration of do_request: client.inner.read().unwrap()
AcquireRead(c) ==
    /\ pc[c] = "loop"
    /\ retry_budget_left(attempt[c])
    /\ read_ready
    /\ attempt' = [attempt EXCEPT ![c] = attempt[c] + 1]
    /\ IF poisoned
       THEN pc' = [pc EXCEPT ![c] = "panicked"] /\ readers' = readers
       ELSE pc' = [pc EXCEPT ![c] = "invoking"] /\ readers' = readers \cup {c}
    /\ UNCHANGED <<env, newVars, members, inner, writer, poisoned, req, r, result,
                   histVars, tryVars>>

\* f(cli) returns and drops the read guard it was given
Invoke(c) ==
    /\ pc[c] = "invoking"
    /\ \E out \in Outcomes(c) :
          /\ r' = [r EXCEPT ![c] = Some(out)]
          /\ pc' = [pc EXCEPT ![c] = match_arm(out)]
          /\ glitches' = [glitches EXCEPT ![c] =
                            IF out.tag = "err" /\ NodeState(inner).rpc = "ok"
                            THEN glitches[c] + 1 ELSE glitches[c]]
    /\ readers' = readers \ {c}
    /\ invokes' = [invokes EXCEPT ![c] = invokes[c] + 1]
    /\ first_conn' = [first_conn EXCEPT ![c] = IF invokes[c] = 0 THEN Some(inner) ELSE @]
    /\ failed_on' = [failed_on EXCEPT ![c] = IF pc'[c] = "failed" THEN Some(inner) ELSE None]
    /\ fresh' = [fresh EXCEPT ![c] = FALSE]
    /\ UNCHANGED <<env, newVars, members, inner, writer, poisoned, req, attempt, result,
                   sleeps, failovers, tryVars>>

\* the Err arm: client.inner.write().unwrap()
AcquireWrite(c) ==
    /\ pc[c] = "failed"
    /\ write_ready
    /\ IF poisoned
       THEN pc' = [pc EXCEPT ![c] = "panicked"] /\ writer' = writer
       ELSE pc' = [pc EXCEPT ![c] = "failover"] /\ writer' = Some(c)
    /\ UNCHANGED <<env, newVars, members, inner, readers, poisoned, req, attempt, r,
                   result, histVars, tryVars>>

\* the connection lost when try_connect fails
after_try_connect_cleared(t) == IF t.tag = "ok" THEN t.val ELSE NoClient

\* the match on try_connect: Ok(c) => *cli = c, and no assignment in any other case
after_try_connect(t) == IF t.tag = "ok" THEN t.val ELSE inner

\* try_connect under the write guard: *cli = c and the guard dropped, or the error
\* logged and the sleep begun, or the panic of connect unwinding through the guard
Failover(c) ==
    /\ pc[c] = "failover"
    /\ \E order \in Perms(Len(members.members)) :
          LET t == try_connect(members, order) IN
          /\ inner' = after_try_connect(t)
          /\ fresh' = [fresh EXCEPT ![c] = t.tag = "ok"]
          /\ IF t.tag = "ok"
             THEN /\ writer' = None
                  /\ pc' = [pc EXCEPT ![c] = "loop"]
                  /\ poisoned' = poisoned
             ELSE IF t.tag = "err"
             THEN /\ pc' = [pc EXCEPT ![c] = "sleeping"]
                  /\ UNCHANGED <<writer, poisoned>>
             ELSE /\ pc' = [pc EXCEPT ![c] = "panicked"]
                  /\ poisoned' = TRUE
                  /\ writer' = None
    /\ failovers' = [failovers EXCEPT ![c] = failovers[c] + 1]
    /\ failed_on' = [failed_on EXCEPT ![c] = None]
    /\ UNCHANGED <<env, newVars, members, readers, req, attempt, r, result, invokes,
                   sleeps, glitches, first_conn, tryVars>>

\* thread::sleep(Duration::from_secs(1)) ends; the write guard is dropped at continue
Wake(c) ==
    /\ pc[c] = "sleeping"
    /\ sleeps' = [sleeps EXCEPT ![c] = sleeps[c] + 1]
    /\ writer' = None
    /\ pc' = [pc EXCEPT ![c] = "loop"]
    /\ UNCHANGED <<env, newVars, members, inner, readers, poisoned, req, attempt, r,
                   result, invokes, failovers, glitches, first_conn, failed_on, fresh,
                   tryVars>>

\* do_request deciding by the iteration count instead of resp
do_request_result_by_count(c) ==
    IF pc[c] = "returned" /\ attempt[c] < MAX_RETRY_COUNT THEN r[c].some
    ELSE Err("fail to request")

\* do_request returns: Ok(r) after the break, or resp.ok_or("fail to request") after
\* MAX_RETRY_COUNT iterations; the facade operation checks the header and returns
do_request_result(c) ==
    IF pc[c] = "returned" THEN r[c].some ELSE Err("fail to request")

Finish(c) ==
    /\ \/ pc[c] = "returned"
       \/ pc[c] = "loop" /\ ~retry_budget_left(attempt[c])
    /\ result' = [result EXCEPT ![c] = Some(Facade(req[c].some.op, do_request_result(c)))]
    /\ pc' = [pc EXCEPT ![c] = "done"]
    /\ UNCHANGED <<env, newVars, clientVars, req, attempt, r, histVars, tryVars>>

MemberLists == {MembersOf(n) : n \in Nodes} \cup {<<>>}

\* The client after a successful construction, some time later: the snapshot and
\* the connection construction left, and the network as it is now. The recorded
\* identifier is one fixed value: the code only copies it into request headers,
\* and the nodes range over every identifier, the recorded one and a foreign one.
Init ==
    /\ env \in {e \in [Nodes -> NodeStates] : e[NodeC] = Down}
    /\ input = <<>>
    /\ npc = "ok"
    /\ endpoints = <<>>
    /\ idx = 1
    /\ endpoints_set = {}
    /\ pd_client = None
    /\ members_opt = None
    /\ cluster_id = None
    /\ nerr = "none"
    /\ netlog = <<>>
    /\ members \in {GetMembersResponse(7, ms) : ms \in MemberLists}
    /\ inner \in {NodeA, NodeB}
    /\ readers = {}
    /\ writer = None
    /\ poisoned = FALSE
    /\ IdleCalls
    /\ NoTry

Next ==
    \E c \in Callers :
        \/ BeginCall(c)
        \/ GetClusterId(c)
        \/ AcquireRead(c)
        \/ Invoke(c)
        \/ AcquireWrite(c)
        \/ Failover(c)
        \/ Wake(c)
        \/ Finish(c)

Spec == Init /\ [][Next]_vars

(***************************************************************************)
(* Concurrent callers of the executor                                      *)
(***************************************************************************)

\* the operation the concurrent callers invoke
ConcOps == {"store_heartbeat"}

\* the attempts of a call that are followed when threads run concurrently
MaxConcAttempts == 3

\* each thread calls the operation once
BeginConc(c) ==
    /\ pc[c] = "idle"
    /\ \E o \in ConcOps : BeginOp(c, o)

\* an iteration of do_request begins, among the attempts followed
BeginAttempt(c) ==
    /\ attempt[c] < MaxConcAttempts
    /\ AcquireRead(c)

\* The client after a successful construction, shared by the threads.
InitConc == Init

NextConc ==
    \E c \in Threads :
        \/ BeginConc(c)
        \/ BeginAttempt(c)
        \/ Invoke(c)
        \/ AcquireWrite(c)
        \/ Failover(c)
        \/ Wake(c)
        \/ Finish(c)

SpecConc == InitConc /\ [][NextConc]_vars

(***************************************************************************)
(* try_connect on its own, over member lists and shuffles                  *)
(***************************************************************************)

\* the members a snapshot is made of: one address, two addresses, an address of a
\* third node, an address connect cannot parse, no address
MemberPool == {Member(<<AddrA>>), Member(<<AddrB, AddrA>>), Member(<<AddrC>>),
               Member(<<AddrUrl>>), Member(<<>>)}
MaxMembers == 3

Snapshots ==
    UNION {[1..n -> MemberPool] : n \in 0..MaxMembers}

\* the addresses the loop of try_connect calls connect with: every address up to
\* the first on which connect does not return Err
RECURSIVE connect_calls(_)
connect_calls(addrs) ==
    IF addrs = <<>> THEN <<>>
    ELSE IF connect(Head(addrs)).tag = "err"
         THEN <<Head(addrs)>> \o connect_calls(Tail(addrs))
         ELSE <<Head(addrs)>>

\* one run of try_connect(&client.members)
TryConnect ==
    /\ selected = None
    /\ \E order \in Perms(Len(members.members)) :
          /\ shuffle' = order
          /\ tried' = connect_calls(Visit(members.members, order))
          /\ selected' = Some(try_connect(members, order))
    /\ UNCHANGED <<env, newVars, clientVars, callVars, histVars>>

\* A client with any snapshot, against any network.
InitTry ==
    /\ env \in [Nodes -> {Down, Serving(7)}]
    /\ input = <<>>
    /\ npc = "ok"
    /\ endpoints = <<>>
    /\ idx = 1
    /\ endpoints_set = {}
    /\ pd_client = None
    /\ members_opt = None
    /\ cluster_id = None
    /\ nerr = "none"
    /\ netlog = <<>>
    /\ members \in {GetMembersResponse(7, ms) : ms \in Snapshots}
    /\ inner = NodeA
    /\ readers = {}
    /\ writer = None
    /\ poisoned = FALSE
    /\ IdleCalls
    /\ NoTry

NextTry == TryConnect

SpecTry == InitTry /\ [][NextTry]_vars

(***************************************************************************)
(* Properties of construction, checked under SpecNew                       *)
(***************************************************************************)

Terminated == npc \in {"ok", "err", "panic"}
HasDuplicate(eps) == \E i, j \in 1..Len(eps) : i # j /\ eps[i] = eps[j]
\* the endpoint connects and answers GetMembers
Answers(ep) == connect(ep).tag = "ok" /\ GetMembers(connect(ep).val).tag = "ok"
ReportedId(ep) == GetMembers(connect(ep).val).val.header.cluster_id
EndpointSet == {endpoints[i] : i \in 1..Len(endpoints)}
OnlyBlank(s) == \A i \in 1..Len(s) : s[i] \in {",", " "}

\* C2: a list with a duplicate address makes construction fail with the
\* duplicate-endpoint error, and no connect or GetMembers call is made before it fails.
C2_DuplicateFailsBeforeNetwork ==
    (Terminated /\ HasDuplicate(endpoints))
        => (npc = "err" /\ nerr = "duplicate PD endpoint" /\ netlog = <<>>)

\* C8: two endpoints of a duplicate-free list that both answer and report different
\* cluster ids make construction fail, whatever else is in the list: it never
\* succeeds, a returned error is the mismatch error, and neither a connection nor a
\* membership snapshot is handed out.
C8_Precondition ==
    /\ npc # "new"
    /\ ~HasDuplicate(endpoints)
    /\ \E e1, e2 \in EndpointSet :
          Answers(e1) /\ Answers(e2) /\ ReportedId(e1) # ReportedId(e2)

C8_MismatchFailsConstruction ==
    C8_Precondition =>
        /\ npc # "ok"
        /\ npc = "err" => nerr = "PD response cluster_id mismatch"
        /\ members = NoMembers
        /\ inner = NoClient

C8_Witness ==
    /\ C8_Precondition
    /\ Len(endpoints) = 3
    /\ idx = 3
    /\ npc = "err"
    /\ nerr = "PD response cluster_id mismatch"

\* C9: for a non-empty duplicate-free list whose answering endpoints all report the
\* same cluster id c, construction succeeds exactly when some endpoint connects and
\* answers, and get_cluster_id then returns c.
C9_SucceedsIffSomeEndpointAnswers ==
    (/\ Terminated
     /\ endpoints # <<>>
     /\ ~HasDuplicate(endpoints)
     /\ \A e1, e2 \in EndpointSet :
           (Answers(e1) /\ Answers(e2)) => ReportedId(e1) = ReportedId(e2))
        => /\ npc = "ok" <=> (\E e \in EndpointSet : Answers(e))
           /\ npc = "ok" => \E e \in EndpointSet : Answers(e) /\ get_cluster_id = ReportedId(e)

\* C10: an empty address list, or an endpoints string whose entries are all empty
\* after trimming, makes construction fail with the empty-endpoints error before
\* any connect or GetMembers call.
C10_EmptyEndpointsRejected ==
    (npc # "new" /\ OnlyBlank(input))
        => (npc = "err" /\ nerr = "empty PD endpoints" /\ netlog = <<>>)

C10_Witness ==
    /\ npc = "err"
    /\ nerr = "empty PD endpoints"
    /\ netlog = <<>>
    /\ OnlyBlank(input)
    /\ \E i, j \in 1..Len(input) : input[i] = "," /\ input[j] = " "

\* endpoint i is the earliest of the list that connects
FirstConnected(i) ==
    /\ connect(endpoints[i]).tag = "ok"
    /\ \A j \in 1..(i - 1) : connect(endpoints[j]).tag # "ok"
\* endpoint i is the earliest of the list that connects and answers GetMembers
FirstAnswering(i) ==
    /\ Answers(endpoints[i])
    /\ \A j \in 1..(i - 1) : ~Answers(endpoints[j])

\* C17 (as claimed): after a successful construction the connection is the one
\* opened to the earliest listed address whose connect succeeded, and the snapshot
\* is the first successful GetMembers response in input order.
C17_FirstConnectionRetained ==
    npc = "ok" =>
        /\ \E i \in 1..Len(endpoints) :
              FirstConnected(i) /\ inner = connect(endpoints[i]).val
        /\ \E i \in 1..Len(endpoints) :
              FirstAnswering(i) /\ members = GetMembers(connect(endpoints[i]).val).val

\* C17 (amended): after a successful construction the connection is the one opened
\* to the earliest listed address that connected and answered GetMembers, and the
\* snapshot is that endpoint's response; a connection that did not answer, and the
\* connections and responses of later endpoints, are not kept.
C17_FirstAnsweringRetained ==
    npc = "ok" =>
        \E i \in 1..Len(endpoints) :
            /\ FirstAnswering(i)
            /\ inner = connect(endpoints[i]).val
            /\ members = GetMembers(inner).val
            /\ pd_client = Some(inner)
            /\ members_opt = Some(members)

\* the first endpoint connects without answering, the next two answer
C17_Witness ==
    /\ npc = "ok"
    /\ Len(endpoints) = 3
    /\ FirstConnected(1) /\ FirstAnswering(2) /\ Answers(endpoints[3])
    /\ inner = connect(endpoints[2]).val
    /\ members.members = MembersOf(inner)

(***************************************************************************)
(* Properties of the executor and the facade, checked under Spec           *)
(***************************************************************************)

\* caller c has finished an operation that went through do_request
Finished(c) == pc[c] = "done" /\ IsSome(req[c])
\* the last f(cli) of caller c returned a response
GotResponse(c) == IsSome(r[c]) /\ r[c].some.tag = "ok"
Response(c) == r[c].some.val
HeaderError(c) == GotResponse(c) /\ IsSome(Response(c).header.error)
Foreign(c) == GotResponse(c) /\ Response(c).header.cluster_id # members.header.cluster_id

MemberAddrs ==
    UNION {{members.members[i].peer_urls[j] : j \in 1..Len(members.members[i].peer_urls)} :
              i \in 1..Len(members.members)}
\* connect to the address succeeds and calls on that connection succeed
Reachable(a) == connect(a).tag = "ok" /\ NodeState(connect(a).val).rpc = "ok"
Unreachable(a) == connect(a).tag = "err"

\* C1 (as claimed): a response whose cluster id differs from the recorded one makes
\* the operation fail with an error; its payload is never handed to the caller.
C1_ForeignResponseRejected ==
    \A c \in Callers : (Finished(c) /\ Foreign(c)) => result[c].some.tag = "err"

\* C1 (amended): the cluster id of a response is not compared with the recorded one:
\* a response with a different id makes the operation fail exactly when its header
\* carries an embedded error, and otherwise its payload is handed to the caller.
C1_ForeignResponseFailsOnlyOnHeaderError ==
    \A c \in Callers :
        (Finished(c) /\ Foreign(c)) =>
            /\ result[c].some.tag = "err" <=> HeaderError(c)
            /\ ~HeaderError(c) =>
                  result[c].some = Ok(Payload(req[c].some.op, Response(c)))

C1_Witness ==
    \E c \in Callers :
        /\ Finished(c) /\ Foreign(c) /\ ~HeaderError(c)
        /\ failovers[c] > 0
        /\ req[c].some.op = "get_store"
        /\ result[c].some = Ok("store")

C3_Precondition ==
    /\ \A a \in MemberAddrs : Reachable(a) \/ Unreachable(a)
    /\ \E a \in MemberAddrs : Reachable(a)

C4_Precondition(c) ==
    /\ IsSome(first_conn[c])
    /\ NodeState(first_conn[c].some).rpc = "fail"
    /\ \A a \in MemberAddrs : Unreachable(a)

C4_ExhaustionAfterFullBudget ==
    \A c \in Callers :
        /\ invokes[c] <= MAX_RETRY_COUNT
        /\ C4_Precondition(c) =>
              /\ pc[c] \in {"loop", "invoking", "failed", "failover", "sleeping", "done"}
              /\ Finished(c) =>
                    /\ result[c].some = Err("fail to request")
                    /\ invokes[c] = MAX_RETRY_COUNT
                    /\ sleeps[c] >= MAX_RETRY_COUNT - 1

C4_Witness ==
    \E c \in Callers :
        /\ C4_Precondition(c) /\ Finished(c)
        /\ MemberAddrs # {}
        /\ result[c].some = Err("fail to request")
        /\ invokes[c] = MAX_RETRY_COUNT

\* C5: when the operation fails on its first k attempts (k < MAX_RETRY_COUNT) and
\* succeeds on attempt k + 1, the caller gets what the facade makes of that
\* response, never a transport, failover or retry-exhausted error, and the
\* operation is not invoked again after the success.
C5_TransportFailuresMasked ==
    \A c \in Callers :
        GotResponse(c) =>
            /\ pc[c] \in {"returned", "done"}
            /\ invokes[c] = attempt[c]
            /\ Finished(c) =>
                  /\ result[c].some = Facade(req[c].some.op, Ok(Response(c)))
                  /\ ~HeaderError(c) =>
                        result[c].some = Ok(Payload(req[c].some.op, Response(c)))

C5_Witness ==
    \E c \in Callers :
        /\ Finished(c) /\ GotResponse(c)
        /\ invokes[c] = MAX_RETRY_COUNT
        /\ result[c].some.tag = "ok"

\* C5, the case of a masked failover error: a pause was taken before the success
C5_WitnessAfterPause ==
    \E c \in Callers :
        Finished(c) /\ GotResponse(c) /\ sleeps[c] > 0 /\ result[c].some.tag = "ok"

\* C6: for every facade operation, a response whose header carries an error makes
\* the operation return the service-level error with that error's message, never
\* a payload.
C6_HeaderErrorSurfaced ==
    \A c \in Callers :
        (Finished(c) /\ HeaderError(c)) =>
            result[c].some = Err(Response(c).header.error.some)

C6_Witness ==
    \E c \in Callers :
        /\ Finished(c) /\ HeaderError(c)
        /\ req[c].some.op = "get_region_by_id"
        /\ IsSome(Response(c).body.region)
        /\ result[c].some = Err("e2")

\* C7: a response whose header carries an error is never retried: from then on
\* the caller invokes nothing, takes neither the read nor the write lock, calls no
\* failover and leaves the connection as it is; its next step returns the error.
C7_ServiceErrorNotRetried ==
    [][\A c \in Callers :
          (HeaderError(c) /\ pc[c] # "done") =>
              /\ pc[c] = "returned"
              /\ pc'[c] \in {"returned", "done"}
              /\ invokes'[c] = invokes[c]
              /\ failovers'[c] = failovers[c]
              /\ sleeps'[c] = sleeps[c]
              /\ c \notin readers' /\ writer' # Some(c)
              /\ pc'[c] = "done" =>
                    /\ inner' = inner
                    /\ result'[c] = Some(Err(Response(c).header.error.some))]_vars

C7_Witness ==
    \E c \in Callers :
        /\ Finished(c) /\ HeaderError(c)
        /\ req[c].some.op = "alloc_id"
        /\ invokes[c] = 1 /\ failovers[c] = 0
        /\ result[c].some = Err("e1")

\* C11: the membership snapshot and the cluster identifier recorded at construction
\* never change, whatever a response reports and whatever a failover installs, and
\* the request of every facade operation, on its first attempt and on every retry,
\* carries exactly the recorded identifier in its header.
C11_SnapshotFixedAndStamped ==
    [][/\ members' = members
       /\ get_cluster_id' = get_cluster_id
       /\ \A c \in Callers :
             IsSome(req'[c]) => req'[c].some.header.cluster_id = get_cluster_id]_vars

\* a retry after a failover, sent to a node of another cluster with the recorded id
C11_Witness ==
    \E c \in Callers :
        /\ pc[c] = "invoking"
        /\ failovers[c] > 0
        /\ fresh[c]
        /\ req[c].some.op = "report_split"
        /\ req[c].some.header.cluster_id = get_cluster_id
        /\ NodeState(inner).rpc = "ok"
        /\ NodeState(inner).cluster_id # get_cluster_id

\* C14 (as claimed): whenever try_connect succeeds and its connection is installed,
\* the executor invokes the operation on the new connection before it returns, on
\* every attempt of the loop.
C14_RetriedAfterEveryInstall ==
    \A c \in Callers : Finished(c) => ~fresh[c]

\* C14 (amended): a connection installed on one of the first MAX_RETRY_COUNT - 1
\* attempts is invoked on before the executor returns; one installed on the last
\* attempt is left current and never invoked on by this call, which returns the
\* retry-exhausted error.
C14_RetriedUnlessBudgetSpent ==
    \A c \in Callers :
        fresh[c] =>
            /\ pc[c] \in {"loop", "invoking", "done"}
            /\ invokes[c] = failovers[c]
            /\ pc[c] = "invoking" => attempt[c] = invokes[c] + 1
            /\ pc[c] = "done" =>
                  /\ invokes[c] = MAX_RETRY_COUNT
                  /\ result[c].some = Err("fail to request")

C14_Witness ==
    \E c \in Callers :
        /\ Finished(c) /\ fresh[c]
        /\ failovers[c] = MAX_RETRY_COUNT
        /\ first_conn[c] # Some(inner)
        /\ NodeState(inner).rpc = "ok"

(***************************************************************************)
(* Properties of concurrent callers, checked under SpecConc                *)
(***************************************************************************)

\* C12: while one caller runs try_connect or installs a connection, no other
\* caller's invocation is in progress and no other caller is in failover; a caller
\* inside an invocation holds the lock for reading, together with any other callers
\* inside an invocation and with no writer.
C12_ReaderWriterExclusion ==
    \A c \in Threads :
        /\ pc[c] = "failover" =>
              /\ writer = Some(c)
              /\ readers = {}
              /\ \A d \in Threads \ {c} : pc[d] \notin {"invoking", "failover", "sleeping"}
        /\ pc[c] = "invoking" => (c \in readers /\ writer = None)
        /\ c \in readers => pc[c] = "invoking"

\* one caller in failover while another, whose invocation also failed, waits
C12_Witness ==
    \E c, d \in Threads :
        /\ c # d
        /\ pc[c] = "failover" /\ writer = Some(c)
        /\ pc[d] = "failed" /\ failed_on[d] = Some(inner)

\* C12, the case of parallel readers: two callers inside an invocation at once
C12_WitnessParallelReaders ==
    \E c, d \in Threads : c # d /\ pc[c] = "invoking" /\ pc[d] = "invoking"

\* caller c waits for the lock
Blocked(c) ==
    \/ pc[c] = "loop" /\ retry_budget_left(attempt[c]) /\ ~read_ready
    \/ pc[c] = "failed" /\ ~write_ready

\* C13: a caller has released its read access before it asks for write access, in
\* no state is every caller blocked on the lock, and a call that has begun goes on
\* until it returns a response or the retry-exhausted error: it is never aborted.
C13_NoDeadlockAndCompletion ==
    /\ \A c \in Threads : pc[c] = "failed" => c \notin readers
    /\ \E c \in Threads : ~Blocked(c)
    /\ \A c \in Threads : pc[c] # "panicked"

\* C15: connect returns a connection or an error for every address: a member
\* address that is not host:port with a 16-bit port is skipped by try_connect like
\* an address that refuses the connection, so that no caller is aborted in failover
\* and the lock is never left poisoned for the other callers.
C15_MalformedAddressIsConnectFailure ==
    /\ ~poisoned
    /\ \A c \in Threads :
          pc[c] = "sleeping" => \A a \in MemberAddrs : connect(a).tag = "err"
    /\ \A c \in Threads : pc[c] # "panicked"

(***************************************************************************)
(* Properties of try_connect, checked under SpecTry                        *)
(***************************************************************************)

IsPrefix(p, q) == Len(p) <= Len(q) /\ SubSeq(q, 1, Len(p)) = p
\* the addresses of the members in the order of the shuffle
VisitOrder == Visit(members.members, shuffle)

\* C16: try_connect returns a connection or the failure; a connection exactly when
\* connect succeeds for some address of some member. It calls connect on the
\* addresses in the order of the shuffled members and of each member's list,
\* returns the first connection that succeeds and calls connect no more after it,
\* and returns the failure only after every address has been tried and has failed.
C16_FirstConnectionInShuffledOrder ==
    IsSome(selected) =>
        /\ shuffle \in Perms(Len(members.members))
        /\ IsPrefix(tried, VisitOrder)
        /\ selected.some.tag \in {"ok", "err"}
        /\ selected.some.tag = "ok" <=> \E a \in MemberAddrs : connect(a).tag = "ok"
        /\ selected.some.tag = "ok" =>
              /\ tried # <<>>
              /\ selected.some = connect(tried[Len(tried)])
              /\ \A i \in 1..(Len(tried) - 1) : connect(tried[i]).tag = "err"
        /\ selected.some.tag = "err" =>
              /\ tried = VisitOrder
              /\ \A i \in 1..Len(tried) : connect(tried[i]).tag = "err"

(***************************************************************************)
(* Further properties of concurrent callers, checked under SpecConc        *)
(***************************************************************************)

\* caller c's try_connect succeeds in this step and its connection is installed
Installs(c) == pc[c] = "failover" /\ pc'[c] = "loop" /\ fresh'[c]

\* C18: the current connection changes only in the step of a successful failover:
\* an invocation, successful or not, a failed failover, the pause after it and
\* every other step leave it exactly as it was, and it is always one connection
\* to a node.
C18_ReplacedOnlyBySuccessfulFailover ==
    [][/\ inner' \in Nodes
       /\ inner' # inner => \E c \in Threads : Installs(c)
       /\ \A c \in Threads :
             /\ (pc[c] = "invoking" /\ pc'[c] # "invoking") => inner' = inner
             /\ (pc[c] = "failover" /\ pc'[c] \in {"sleeping", "panicked"}) => inner' = inner
             /\ pc[c] = "sleeping" => inner' = inner]_vars

\* after a failed failover and its pause, the next attempt on the old connection
C18_Witness ==
    \E c \in Threads :
        /\ pc[c] = "invoking"
        /\ sleeps[c] = 1 /\ failovers[c] = 1 /\ attempt[c] = 2
        /\ first_conn[c] = Some(inner)
        /\ \A d \in Threads \ {c} : failovers[d] = 0

\* C19: the connection a caller overwrites when it installs a new one is the
\* connection its own invocation just failed on: a connection installed by another
\* caller in the meantime is not overwritten by a caller that has not failed on it.
C19_OverwritesOnlyFailedConnection ==
    [][\A c \in Threads : Installs(c) => failed_on[c] = Some(inner)]_vars

\* C20: a caller pauses after a failed failover with the write lock still held: as
\* long as it is pausing no other caller is inside an invocation, in failover or
\* pausing, so the pauses of different callers never overlap.
C20_PauseHoldsWriteLock ==
    \A c \in Threads :
        pc[c] = "sleeping" =>
            /\ writer = Some(c)
            /\ readers = {}
            /\ \A d \in Threads \ {c} : pc[d] \notin {"invoking", "failover", "sleeping"}

\* one caller pauses while another, which has paused before it, waits for the lock
C20_Witness ==
    \E c, d \in Threads :
        /\ c # d
        /\ pc[c] = "sleeping" /\ writer = Some(c)
        /\ pc[d] = "loop" /\ sleeps[d] = 1 /\ Blocked(d)

====
